---- MODULE Spec2Model ----
(***************************************************************************)
(* rhbloom: Robin hood bloom filter (src/rhbloom.c), and its header-only   *)
(* variant (src/rhbloom.h).                                                *)
(*                                                                         *)
(* A uint64_t is a tuple of 8 bytes, least significant byte first, so that *)
(* the 64-bit arithmetic of the mixer and of the Bloom probe is computed   *)
(* with its real width.  In a bucket the first seven bytes are the 56-bit  *)
(* key and the eighth byte is the dib.                                     *)
(***************************************************************************)
EXTENDS Integers, Sequences, FiniteSets, TLC

\* ------------------------------------------------------------------------
\* uint64_t arithmetic
\* ------------------------------------------------------------------------

\* The 64-bit word of a natural number below 2^31.
U64(x) ==
    << x % 256, (x \div 256) % 256, (x \div 65536) % 256,
       (x \div 16777216) % 256, 0, 0, 0, 0 >>

Pow2(e) == 2 ^ e

\* a ^ b on naturals (C's bitwise exclusive or).
RECURSIVE XorNat(_, _)
XorNat(a, b) ==
    IF a = 0 THEN b
    ELSE IF b = 0 THEN a
    ELSE ((a + b) % 2) + 2 * XorNat(a \div 2, b \div 2)

\* x ^ y on uint64_t.
Xor64(x, y) == [i \in 1..8 |-> XorNat(x[i], y[i])]

\* Byte i (1-based, may lie past the word: then 0) of x.
ByteAt(x, i) == IF i \in 1..8 THEN x[i] ELSE 0

\* x >> s on uint64_t (logical shift), 0 <= s < 64.
Shr64(x, s) ==
    LET q == s \div 8
        r == s % 8
    IN  [i \in 1..8 |->
            (ByteAt(x, i + q) \div Pow2(r))
            + (ByteAt(x, i + q + 1) % Pow2(r)) * Pow2(8 - r)]

\* The sum of the byte products that land in byte i (0-based) of x * y.
RECURSIVE MulColumn(_, _, _, _)
MulColumn(x, y, i, j) ==
    IF j > i THEN 0
    ELSE x[j + 1] * y[i - j + 1] + MulColumn(x, y, i, j + 1)

RECURSIVE MulBytes(_, _, _, _)
MulBytes(x, y, i, carry) ==
    IF i = 8 THEN << >>
    ELSE LET s == carry + MulColumn(x, y, i, 0)
         IN  << s % 256 >> \o MulBytes(x, y, i + 1, s \div 256)

\* x * y on uint64_t (modulo 2^64).
Mul64(x, y) == MulBytes(x, y, 0, 0)

\* UINT64_C(0xbf58476d1ce4e5b9) and UINT64_C(0x94d049bb133111eb).
MixMul1 == << 185, 229, 228, 28, 109, 71, 88, 191 >>
MixMul2 == << 235, 17, 49, 19, 187, 73, 208, 148 >>

\* x & (size - 1) for size a power of two up to 2^30 (nbuckets, m).
Mask(x, size) ==
    (x[1] + 256 * x[2] + 65536 * x[3] + 16777216 * (x[4] % 64)) % size

\* RHBLOOM_KEY, RHBLOOM_DIB and RHBLOOM_SETKEYDIB.  The dib is an int that is
\* shifted into the top byte: only its low 8 bits are kept.
RHBLOOM_KEY(x) == [i \in 1..8 |-> IF i = 8 THEN 0 ELSE x[i]]
RHBLOOM_DIB(x) == x[8]
RHBLOOM_SETKEYDIB(key, dib) == [i \in 1..8 |-> IF i = 8 THEN dib % 256 ELSE key[i]]

\* rhbloom_mix: mix13.
mix13(key0) ==
    LET k1 == Xor64(key0, Shr64(key0, 30))
        k2 == Mul64(k1, MixMul1)
        k3 == Xor64(k2, Shr64(k2, 27))
        k4 == Mul64(k3, MixMul2)
    IN  Xor64(k4, Shr64(k4, 31))

\* The step of the Bloom probe sequence: key *= 0x94d0...; key ^= key >> 31.
probe13(key) ==
    LET k1 == Mul64(key, MixMul2)
    IN  Xor64(k1, Shr64(k1, 31))

\* A null pointer.  An allocated array is its sequence of elements (element
\* i of the C array is element i + 1 of the sequence); the null pointer is
\* no array, not even the empty one that an allocation of 0 bytes gives.
NULL == << -1 >>

\* memset(p, 0, n) of a fresh allocation of n elements.
Zeroed(n, elem) == [i \in 1..n |-> elem]

\* sizeof(struct rhbloom) of rhbloom.c (two function pointers, three size_t,
\* two pointers, one size_t; LP64).
SizeofStruct == 64

\* The largest value of the 8-bit dib field of a bucket.
MaxDib == 255

\* The (m, k) that rhbloom_new_with_allocator derives for (n, p = 0.01), as
\* the double arithmetic of lines 41-54 computes them.
Derived(n) ==
    CASE n = 16    -> [m |-> 256,    k |-> 4]
      [] n = 200   -> [m |-> 2048,   k |-> 7]
      [] n = 400   -> [m |-> 4096,   k |-> 7]
      [] n = 6500  -> [m |-> 65536,  k |-> 7]
      [] n = 13000 -> [m |-> 131072, k |-> 7]

\* ------------------------------------------------------------------------
\* Inputs
\* ------------------------------------------------------------------------

\* The multiplicative inverses modulo 2^64 of MixMul1 and MixMul2.
InvMul1 == << 137, 144, 17, 63, 23, 27, 222, 150 >>
InvMul2 == << 195, 142, 77, 210, 178, 66, 150, 49 >>

\* The inverse of x ^= x >> s, for 3 * s >= 64.
UnXorShift(y, s) ==
    Xor64(Xor64(y, Shr64(y, s)), IF 2 * s < 64 THEN Shr64(y, 2 * s) ELSE U64(0))

\* The key that mix13 maps to v (mix13 is a bijection of uint64_t).
Unmix13(v) ==
    LET k1 == Mul64(UnXorShift(v, 31), InvMul2)
        k2 == Mul64(UnXorShift(k1, 27), InvMul1)
    IN  UnXorShift(k2, 30)

\* The mixed values of the keys of the model.  The first key is the key 0,
\* whose mixed value is 0.  In a 16-bucket table 0 and 16 share the ideal
\* bucket 0; 5 and 21 share bucket 5, next to 6; 15 and 31 share the last
\* bucket and wrap around.  The ninth value differs from 5 only above bit
\* 55: the two keys are one key to the filter.
MixedValues ==
    << U64(0), U64(5), U64(21), U64(6), U64(15), U64(31), U64(16), U64(9),
       << 5, 0, 0, 0, 0, 0, 0, 1 >>, U64(12) >>

\* How many of them the model uses.
NumKeys == 8

Keys == { Unmix13(MixedValues[i]) : i \in 1..NumKeys }

\* The n of the filters of the model (p = 0.01).
Sizes == { 200, 400 }

\* The keys of the collision chain: their mixed values 1024 * i share the
\* ideal bucket 0 of every table of up to 1024 buckets.
ChainLen == 258

ChainKeys == [i \in 1..ChainLen |-> Unmix13(U64(1024 * i))]

ChainKey(i) == ChainKeys[i]

ChainKeySet == { ChainKeys[i] : i \in 1..ChainLen }

ChainSizes == { 6500, 13000 }

\* Every key the model passes to the filter, and mix13 of each, computed
\* once.
ModelKeys == Keys \cup ChainKeySet

MixTable == [key \in ModelKeys |-> mix13(key)]

\* rhbloom_mix
rhbloom_mix(key) == IF key \in ModelKeys THEN MixTable[key] ELSE mix13(key)

\* The values that the probe sequences of these keys go through, and probe13
\* of each, computed once.
RECURSIVE ProbeChain(_, _)
ProbeChain(key, len) ==
    IF len <= 0 THEN {} ELSE {key} \cup ProbeChain(probe13(key), len - 1)

ProbeLen == CHOOSE len \in { Derived(n).k - 1 : n \in Sizes \cup ChainSizes } :
                \A n \in Sizes \cup ChainSizes : Derived(n).k - 1 <= len

ProbeValues == UNION { ProbeChain(RHBLOOM_KEY(MixTable[key]), ProbeLen) : key \in ModelKeys }

ProbeTable == [key \in ProbeValues |-> probe13(key)]

\* The next bit of the probe sequence (rhbloom_testadd).
NextProbe(key) == IF key \in ProbeValues THEN ProbeTable[key] ELSE probe13(key)

\* ------------------------------------------------------------------------
\* The filter: struct rhbloom
\* ------------------------------------------------------------------------

\* rhbloom_new_with_allocator (p = 0.01): the filter after construction.
rhbloom_new(n) ==
    [ count |-> 0, nbuckets |-> 0, buckets |-> NULL,
      k |-> Derived(n).k, m |-> Derived(n).m, bits |-> NULL ]

\* bits[j>>3] |= ... setting the whole byte.
SetBit_byte(bits, j) == [bits EXCEPT ![(j \div 8) + 1] = 255]

\* bits[j>>3] |= 1<<(j&7)
SetBit(bits, j) ==
    LET b == bits[(j \div 8) + 1]
    IN  IF (b \div Pow2(j % 8)) % 2 = 1 THEN bits
        ELSE [bits EXCEPT ![(j \div 8) + 1] = b + Pow2(j % 8)]

\* (bits[j>>3]>>(j&7))&1
GetBit(bits, j) == (bits[(j \div 8) + 1] \div Pow2(j % 8)) % 2

\* The while (1) loop of rhbloom_testadd; the result is the returned bool
\* and the filter as the loop leaves it.
RECURSIVE testadd_loop(_, _, _, _, _)
testadd_loop(rh, key, i, j, add) ==
    IF ~add /\ GetBit(rh.bits, j) = 0
    THEN [ret |-> FALSE, rh |-> rh]
    ELSE LET rh1 == IF add THEN [rh EXCEPT !.bits = SetBit(rh.bits, j)] ELSE rh
         IN  IF i = rh.k - 1
             THEN [ret |-> TRUE, rh |-> rh1]
             ELSE LET key1 == NextProbe(key)
                  IN  testadd_loop(rh1, key1, i + 1, Mask(key1, rh.m), add)

\* rhbloom_testadd
rhbloom_testadd(rh, key0, add) ==
    LET key == RHBLOOM_KEY(key0)
    IN  testadd_loop(rh, key, 0, Mask(key, rh.m), add)

\* The while (1) loop of rhbloom_addkey, entered at bucket i with the carried
\* (key, dib); the result is the filter at return.  The loop walks on (dib++,
\* i++) until iteration t, the first at which the bucket is empty, holds the
\* key, or holds a smaller dib than the carried one; in the last case it
\* swaps and goes on with the displaced entry.  A stored dib is at most
\* MaxDib, so that the walk stops within MaxDib iterations.
RECURSIVE addkey_loop(_, _, _, _)
addkey_loop(rh, key, dib, i) ==
    LET Bucket(t) == rh.buckets[((i + t) % rh.nbuckets) + 1]
        Stop(t) == \/ RHBLOOM_DIB(Bucket(t)) = 0
                   \/ RHBLOOM_KEY(Bucket(t)) = key
                   \/ RHBLOOM_DIB(Bucket(t)) < dib + t
        t == CHOOSE t1 \in 0..MaxDib : Stop(t1) /\ \A u \in 0..(t1 - 1) : ~Stop(u)
        at == (i + t) % rh.nbuckets
        tmp == Bucket(t)
    IN  IF RHBLOOM_DIB(tmp) = 0
        THEN [rh EXCEPT !.buckets[at + 1] = RHBLOOM_SETKEYDIB(key, dib + t),
                        !.count = rh.count + 1]
        ELSE IF RHBLOOM_KEY(tmp) = key
        THEN rh
        ELSE addkey_loop([rh EXCEPT !.buckets[at + 1] = RHBLOOM_SETKEYDIB(key, dib + t)],
                         RHBLOOM_KEY(tmp), RHBLOOM_DIB(tmp) + 1,
                         (at + 1) % rh.nbuckets)

\* The number of iterations of the while (1) loop of rhbloom_addkey, entered
\* at bucket i with the carried (key, dib), until it returns.
RECURSIVE addkey_steps(_, _, _, _)
addkey_steps(rh, key, dib, i) ==
    LET Bucket(t) == rh.buckets[((i + t) % rh.nbuckets) + 1]
        Stop(t) == \/ RHBLOOM_DIB(Bucket(t)) = 0
                   \/ RHBLOOM_KEY(Bucket(t)) = key
                   \/ RHBLOOM_DIB(Bucket(t)) < dib + t
        t == CHOOSE t1 \in 0..MaxDib : Stop(t1) /\ \A u \in 0..(t1 - 1) : ~Stop(u)
        at == (i + t) % rh.nbuckets
        tmp == Bucket(t)
    IN  IF RHBLOOM_DIB(tmp) = 0 \/ RHBLOOM_KEY(tmp) = key
        THEN t + 1
        ELSE (t + 1) +
             addkey_steps([rh EXCEPT !.buckets[at + 1] = RHBLOOM_SETKEYDIB(key, dib + t)],
                          RHBLOOM_KEY(tmp), RHBLOOM_DIB(tmp) + 1,
                          (at + 1) % rh.nbuckets)

\* rhbloom_addkey
rhbloom_addkey(rh, key0) ==
    LET key == RHBLOOM_KEY(key0)
    IN  addkey_loop(rh, key, 1, Mask(key, rh.nbuckets))

\* The migration loop of the upgrade branch of rhbloom_grow, over the old
\* buckets lo <= i < hi in increasing order: the lower half of the range,
\* then the upper half on the filter that the lower half leaves (m never
\* changes).
RECURSIVE grow_upgrade_loop(_, _, _, _)
grow_upgrade_loop(rh, buckets_old, lo, hi) ==
    IF lo >= hi THEN rh
    ELSE IF hi = lo + 1
    THEN IF RHBLOOM_DIB(buckets_old[lo + 1]) # 0
         THEN rhbloom_testadd(rh, buckets_old[lo + 1], TRUE).rh
         ELSE rh
    ELSE LET mid == (lo + hi) \div 2
             rh1 == grow_upgrade_loop(rh, buckets_old, lo, mid)
         IN  IF rh1.m = rh.m
             THEN grow_upgrade_loop(rh1, buckets_old, mid, hi)
             ELSE rh1

\* The re-insertion loop of the expand branch of rhbloom_grow, over the old
\* buckets lo <= i < hi in increasing order: the lower half of the range,
\* then the upper half on the filter that the lower half leaves (m never
\* changes).
RECURSIVE grow_expand_loop(_, _, _, _)
grow_expand_loop(rh, buckets_old, lo, hi) ==
    IF lo >= hi THEN rh
    ELSE IF hi = lo + 1
    THEN IF RHBLOOM_DIB(buckets_old[lo + 1]) # 0
         THEN rhbloom_addkey(rh, buckets_old[lo + 1])
         ELSE rh
    ELSE LET mid == (lo + hi) \div 2
             rh1 == grow_expand_loop(rh, buckets_old, lo, mid)
         IN  IF rh1.m = rh.m
             THEN grow_expand_loop(rh1, buckets_old, mid, hi)
             ELSE rh1

\* rhbloom_grow with the hash fields assigned before the allocation is
\* checked.
grow_expand_resizing_first(rh, mallocOk) ==
    LET buckets_old == rh.buckets
        nbuckets_new == IF rh.nbuckets = 0 THEN 16 ELSE rh.nbuckets * 2
    IN  IF ~mallocOk
        THEN [ret |-> FALSE, rh |-> [rh EXCEPT !.count = 0, !.nbuckets = nbuckets_new]]
        ELSE [ret |-> TRUE,
              rh |-> grow_expand_loop(
                       [rh EXCEPT !.count = 0, !.nbuckets = nbuckets_new,
                                  !.buckets = Zeroed(nbuckets_new, U64(0))],
                       buckets_old, 0, rh.nbuckets)]

\* rhbloom_grow with an upgrade that leaves the hash fields as they were.
grow_upgrade_keeping_buckets(rh, mallocOk) ==
    IF ~mallocOk
    THEN [ret |-> FALSE, rh |-> [rh EXCEPT !.bits = NULL]]
    ELSE [ret |-> TRUE,
          rh |-> grow_upgrade_loop([rh EXCEPT !.bits = Zeroed(rh.m \div 8, 0)],
                                   rh.buckets, 0, rh.nbuckets)]

\* The upgrade branch of rhbloom_grow; mallocOk is whether the allocator
\* returns memory.
grow_upgrade(rh, mallocOk) ==
    IF ~mallocOk
    THEN [ret |-> FALSE, rh |-> [rh EXCEPT !.bits = NULL]]
    ELSE [ret |-> TRUE,
          rh |-> grow_upgrade_loop(
                   [rh EXCEPT !.bits = Zeroed(rh.m \div 8, 0),
                              !.count = 0, !.nbuckets = 0, !.buckets = NULL],
                   rh.buckets, 0, rh.nbuckets)]

\* rhbloom_grow with an expansion to four times the buckets.
grow_expand_quadrupling(rh, mallocOk) ==
    LET buckets_old == rh.buckets
        nbuckets_new == IF rh.nbuckets = 0 THEN 16 ELSE rh.nbuckets * 4
    IN  IF ~mallocOk
        THEN [ret |-> FALSE, rh |-> rh]
        ELSE [ret |-> TRUE,
              rh |-> grow_expand_loop(
                       [rh EXCEPT !.count = 0, !.nbuckets = nbuckets_new,
                                  !.buckets = Zeroed(nbuckets_new, U64(0))],
                       buckets_old, 0, rh.nbuckets)]

\* The expand branch of rhbloom_grow.
grow_expand(rh, mallocOk) ==
    LET buckets_old == rh.buckets
        nbuckets_new == IF rh.nbuckets = 0 THEN 16 ELSE rh.nbuckets * 2
    IN  IF ~mallocOk
        THEN [ret |-> FALSE, rh |-> rh]
        ELSE [ret |-> TRUE,
              rh |-> grow_expand_loop(
                       [rh EXCEPT !.count = 0, !.nbuckets = nbuckets_new,
                                  !.buckets = Zeroed(nbuckets_new, U64(0))],
                       buckets_old, 0, rh.nbuckets)]

\* rhbloom_grow comparing the bytes of the next table with m * 8.
rhbloom_grow_late(rh, mallocOk) ==
    LET nbuckets_new == IF rh.nbuckets = 0 THEN 16 ELSE rh.nbuckets * 2
    IN  IF nbuckets_new * 8 >= rh.m * 8
        THEN grow_upgrade(rh, mallocOk)
        ELSE grow_expand(rh, mallocOk)

\* rhbloom_grow upgrading only when the next table is larger than the bits.
rhbloom_grow_strict(rh, mallocOk) ==
    LET nbuckets_new == IF rh.nbuckets = 0 THEN 16 ELSE rh.nbuckets * 2
    IN  IF nbuckets_new * 8 > rh.m \div 8
        THEN grow_upgrade(rh, mallocOk)
        ELSE grow_expand(rh, mallocOk)

\* rhbloom_grow
rhbloom_grow(rh, mallocOk) ==
    LET nbuckets_new == IF rh.nbuckets = 0 THEN 16 ELSE rh.nbuckets * 2
    IN  IF nbuckets_new * 8 >= rh.m \div 8
        THEN grow_upgrade(rh, mallocOk)
        ELSE grow_expand(rh, mallocOk)

\* The while (1) loop of rhbloom_add and the final rhbloom_addkey, on the
\* mixed key.
RECURSIVE add_loop(_, _, _)
add_loop(rh, key, mallocOk) ==
    IF rh.bits # NULL
    THEN [ret |-> TRUE, rh |-> rhbloom_testadd(rh, key, TRUE).rh]
    ELSE IF rh.count = rh.nbuckets \div 2
    THEN LET g == rhbloom_grow(rh, mallocOk)
         IN  IF ~g.ret THEN [ret |-> FALSE, rh |-> g.rh]
             ELSE add_loop(g.rh, key, mallocOk)
    ELSE [ret |-> TRUE, rh |-> rhbloom_addkey(rh, key)]

\* rhbloom_add growing already when the add would make count reach half of
\* nbuckets.
rhbloom_add_eager(rh, key, mallocOk) ==
    LET mixed == rhbloom_mix(key)
        eager == /\ rh.bits = NULL /\ rh.nbuckets # 0
                 /\ rh.count + 1 = rh.nbuckets \div 2
    IN  IF eager
        THEN LET g == rhbloom_grow(rh, mallocOk)
             IN  IF ~g.ret THEN [ret |-> FALSE, rh |-> g.rh]
                 ELSE add_loop(g.rh, mixed, mallocOk)
        ELSE add_loop(rh, mixed, mallocOk)

\* rhbloom_add growing a table only when it is full.
rhbloom_add_filling(rh, key, mallocOk) ==
    LET mixed == rhbloom_mix(key)
    IN  IF rh.bits = NULL /\ rh.nbuckets # 0 /\ rh.count # rh.nbuckets
        THEN [ret |-> TRUE, rh |-> rhbloom_addkey(rh, mixed)]
        ELSE add_loop(rh, mixed, mallocOk)

\* rhbloom_add
rhbloom_add(rh, key, mallocOk) == add_loop(rh, rhbloom_mix(key), mallocOk)

\* The while (1) loop of rhbloom_test (hash mode): it walks on (dib++, i++)
\* until iteration t, the first at which yes or no holds, and returns yes.
\* A stored dib is at most MaxDib, so that no holds within MaxDib iterations.
test_loop(rh, key, i) ==
    LET Bucket(t) == rh.buckets[((i + t) % rh.nbuckets) + 1]
        Yes(t) == RHBLOOM_KEY(Bucket(t)) = key
        No(t) == RHBLOOM_DIB(Bucket(t)) < 1 + t
        Stop(t) == Yes(t) \/ No(t)
        t == CHOOSE t1 \in 0..MaxDib : Stop(t1) /\ \A u \in 0..(t1 - 1) : ~Stop(u)
    IN  Yes(t)

\* The number of iterations of the while (1) loop of rhbloom_test (hash
\* mode) until it returns.
test_steps(rh, key, i) ==
    LET Bucket(t) == rh.buckets[((i + t) % rh.nbuckets) + 1]
        Yes(t) == RHBLOOM_KEY(Bucket(t)) = key
        No(t) == RHBLOOM_DIB(Bucket(t)) < 1 + t
        Stop(t) == Yes(t) \/ No(t)
        t == CHOOSE t1 \in 0..MaxDib : Stop(t1) /\ \A u \in 0..(t1 - 1) : ~Stop(u)
    IN  t + 1

\* rhbloom_test
rhbloom_test(rh, key0) ==
    LET key == rhbloom_mix(key0)
    IN  IF rh.bits # NULL THEN rhbloom_testadd(rh, key, FALSE).ret
        ELSE IF rh.buckets = NULL THEN FALSE
        ELSE test_loop(rh, RHBLOOM_KEY(key), Mask(RHBLOOM_KEY(key), rh.nbuckets))

\* rhbloom_memsize with count for nbuckets.
rhbloom_memsize_of_count(rh) ==
    SizeofStruct + (IF rh.bits # NULL THEN rh.m \div 8 ELSE rh.count * 8)

\* rhbloom_memsize of rhbloom.c
rhbloom_memsize(rh) ==
    SizeofStruct + (IF rh.bits # NULL THEN rh.m \div 8 ELSE rh.nbuckets * 8)

\* rhbloom_memsize0 of the header-only variant (rhbloom.h), whose struct is
\* the caller's.
rhbloom_memsize0(rh) ==
    IF rh.bits # NULL THEN rh.m \div 8 ELSE rh.nbuckets * 8

\* rhbloom_upgraded
rhbloom_upgraded(rh) == rh.bits # NULL

\* rhbloom_clear releasing the bit array.
rhbloom_clear_releasing(rh) ==
    IF rh.bits # NULL
    THEN [rh EXCEPT !.bits = NULL]
    ELSE IF rh.buckets # NULL
    THEN [rh EXCEPT !.buckets = Zeroed(rh.nbuckets, U64(0)), !.count = 0]
    ELSE rh

\* rhbloom_clear releasing the hash table.
rhbloom_clear_shrinking(rh) ==
    IF rh.bits # NULL
    THEN [rh EXCEPT !.bits = Zeroed(rh.m \div 8, 0)]
    ELSE [rh EXCEPT !.buckets = NULL, !.nbuckets = 0, !.count = 0]

\* rhbloom_clear
rhbloom_clear(rh) ==
    IF rh.bits # NULL
    THEN [rh EXCEPT !.bits = Zeroed(rh.m \div 8, 0)]
    ELSE IF rh.buckets # NULL
    THEN [rh EXCEPT !.buckets = Zeroed(rh.nbuckets, U64(0)), !.count = 0]
    ELSE rh

\* rhbloom_free: the fields as they are set before the struct is released.
rhbloom_free(rh) ==
    [rh EXCEPT !.count = 0, !.nbuckets = 0, !.buckets = NULL, !.bits = NULL]

\* ------------------------------------------------------------------------
\* The state machine
\* ------------------------------------------------------------------------

VARIABLES
    rhbloom,    \* the struct rhbloom
    freed,      \* rhbloom_free was called
    added,      \* the keys added (add returned true) since creation or the last clear
    atUpgrade,  \* the keys that were added when the filter upgraded, the
                \* key of the upgrading add included; emptied by clear
    lastCall    \* the last call: its operation, key and return value,
                \* whether the key of an add was stored in the hash table
                \* before the call, and whether an allocation of the call failed

vars == << rhbloom, freed, added, atUpgrade, lastCall >>

NoKey == << >>

\* The key is stored in the hash table: an occupied bucket holds its mixed
\* 56-bit value.
Stored(rh, key) ==
    /\ rh.bits = NULL
    /\ \E i \in 1..rh.nbuckets :
          /\ RHBLOOM_DIB(rh.buckets[i]) # 0
          /\ RHBLOOM_KEY(rh.buckets[i]) = RHBLOOM_KEY(rhbloom_mix(key))

InitWith(sizes) ==
    /\ rhbloom \in { rhbloom_new(n) : n \in sizes }
    /\ freed = FALSE
    /\ added = {}
    /\ atUpgrade = {}
    /\ lastCall = [op |-> "new", key |-> NoKey, ret |-> TRUE, dup |-> FALSE,
                   mallocFailed |-> FALSE]

Init == InitWith(Sizes)

\* Whether the next rhbloom_add calls the allocator: it does so in
\* rhbloom_grow only, which add calls when count == nbuckets>>1 in hash mode.
AddAllocates == rhbloom.bits = NULL /\ rhbloom.count = rhbloom.nbuckets \div 2

\* What the allocator may answer to the next rhbloom_add: memory or NULL
\* when it is called; nothing is asked of it otherwise.
MallocOutcomes == IF AddAllocates THEN BOOLEAN ELSE {TRUE}

\* rhbloom_add(rhbloom, key), the allocator returning memory or not.
Add(key, mallocOk) ==
    /\ ~freed
    /\ LET r == rhbloom_add(rhbloom, key, mallocOk)
       IN  /\ rhbloom' = r.rh
           /\ added' = IF r.ret THEN added \cup {key} ELSE added
           /\ atUpgrade' = IF ~rhbloom_upgraded(rhbloom) /\ rhbloom_upgraded(r.rh)
                           THEN added \cup {key} ELSE atUpgrade
           /\ lastCall' = [op |-> "add", key |-> key, ret |-> r.ret,
                           dup |-> Stored(rhbloom, key),
                           mallocFailed |-> AddAllocates /\ ~mallocOk]
    /\ UNCHANGED freed

\* rhbloom_test(rhbloom, key)
Test(key) ==
    /\ ~freed
    /\ lastCall' = [op |-> "test", key |-> key, ret |-> rhbloom_test(rhbloom, key),
                    dup |-> FALSE, mallocFailed |-> FALSE]
    /\ UNCHANGED << rhbloom, freed, added, atUpgrade >>

\* rhbloom_clear(rhbloom)
Clear ==
    /\ ~freed
    /\ rhbloom' = rhbloom_clear(rhbloom)
    /\ added' = {}
    /\ atUpgrade' = {}
    /\ lastCall' = [op |-> "clear", key |-> NoKey, ret |-> TRUE, dup |-> FALSE,
                    mallocFailed |-> FALSE]
    /\ UNCHANGED freed

\* rhbloom_free(rhbloom)
Free ==
    /\ ~freed
    /\ rhbloom' = rhbloom_free(rhbloom)
    /\ freed' = TRUE
    /\ lastCall' = [op |-> "free", key |-> NoKey, ret |-> TRUE, dup |-> FALSE,
                    mallocFailed |-> FALSE]
    /\ UNCHANGED << added, atUpgrade >>

Next ==
    \/ \E key \in Keys, mallocOk \in MallocOutcomes : Add(key, mallocOk)
    \/ \E key \in Keys : Test(key)
    \/ Clear
    \/ Free

Spec == Init /\ [][Next]_vars

\* The life cycle: the filters of Spec and a filter of the smallest n, whose
\* bit array (32 bytes) is smaller than the first hash table (128 bytes).
LifeSizes == {16} \cup Sizes

InitLife == InitWith(LifeSizes)

SpecLife == InitLife /\ [][Next]_vars

\* The collision chain: the keys ChainKey(1), ChainKey(2), ... are added in
\* this order to a filter large enough for a 512-bucket table.
InitChain == InitWith(ChainSizes)

AddNext(mallocOk) ==
    /\ Cardinality(added) < ChainLen
    /\ Add(ChainKey(Cardinality(added) + 1), mallocOk)

NextChain == \E mallocOk \in MallocOutcomes : AddNext(mallocOk)

SpecChain == InitChain /\ [][NextChain]_vars

\* Filling a filter to its capacity: a filter created with (n, p) is given
\* n + 1 keys whose mixed values differ in their low 56 bits, as test_step
\* does, and may be cleared and filled again.  p is 10^-pexp.
FillConfigs ==
    { [n |-> 16, pexp |-> 2], [n |-> 200, pexp |-> 2],
      [n |-> 16, pexp |-> 27], [n |-> 16, pexp |-> 60] }

\* The (m, k) that rhbloom_new_with_allocator derives for (n, 10^-pexp).
DerivedAt(n, pexp) ==
    IF pexp = 2 THEN Derived(n)
    ELSE CASE n = 16 /\ pexp = 27 -> [m |-> 4096, k |-> 45]
           [] n = 16 /\ pexp = 60 -> [m |-> 8192, k |-> 112]

\* rhbloom_new_with_allocator for (n, 10^-pexp).
rhbloom_new_at(n, pexp) ==
    [ count |-> 0, nbuckets |-> 0, buckets |-> NULL,
      k |-> DerivedAt(n, pexp).k, m |-> DerivedAt(n, pexp).m, bits |-> NULL ]

\* The n that the filter was created with.
FillN ==
    (CHOOSE c \in FillConfigs :
        DerivedAt(c.n, c.pexp) = [m |-> rhbloom.m, k |-> rhbloom.k]).n

\* The i-th key of the filling: its mixed value is i.
FillKey(i) == Unmix13(U64(i))

InitFill ==
    /\ rhbloom \in { rhbloom_new_at(c.n, c.pexp) : c \in FillConfigs }
    /\ freed = FALSE
    /\ added = {}
    /\ atUpgrade = {}
    /\ lastCall = [op |-> "new", key |-> NoKey, ret |-> TRUE, dup |-> FALSE,
                   mallocFailed |-> FALSE]

AddFill(mallocOk) ==
    /\ Cardinality(added) < FillN + 1
    /\ Add(FillKey(Cardinality(added) + 1), mallocOk)

NextFill ==
    \/ \E mallocOk \in MallocOutcomes : AddFill(mallocOk)
    \/ Clear

SpecFill == InitFill /\ [][NextFill]_vars

\* Construction.  Before rhbloom_new there is no filter: no field of a
\* struct rhbloom has been written.
NoFilter ==
    [ count |-> 0, nbuckets |-> 0, buckets |-> NULL, k |-> 0, m |-> 0, bits |-> NULL ]

\* The n given to rhbloom_new (p = 0.01); an n below 16 is taken as 16.
NewSizes == { 0, 16 }

\* What rhbloom_new_with_allocator(n, 0.01, ...) can do, the allocator
\* returning memory or not: the pointer it returns (ret: not NULL), the
\* fields it has written through its pointer (rh) and whether the process
\* was stopped by a memory fault (trap).  When the allocator returns NULL the
\* test of line 60 looks at _malloc, which is never NULL there, and the
\* fields are written through the NULL pointer.  This is undefined
\* behaviour: either the first write faults, or the writes land at address
\* 0 and the NULL pointer is returned.
rhbloom_new_with_allocator(n, mallocOk) ==
    LET n1 == IF n < 16 THEN 16 ELSE n
    IN  IF mallocOk
        THEN { [ret |-> TRUE, rh |-> rhbloom_new(n1), trap |-> FALSE] }
        ELSE { [ret |-> FALSE, rh |-> NoFilter, trap |-> TRUE],
               [ret |-> FALSE, rh |-> rhbloom_new(n1), trap |-> FALSE] }

InitNew ==
    /\ rhbloom = NoFilter
    /\ freed = FALSE
    /\ added = {}
    /\ atUpgrade = {}
    /\ lastCall = [op |-> "none", key |-> NoKey, ret |-> TRUE, dup |-> FALSE,
                   mallocFailed |-> FALSE]

\* rhbloom_new(n, 0.01)
New(n, mallocOk) ==
    /\ lastCall.op = "none"
    /\ \E r \in rhbloom_new_with_allocator(n, mallocOk) :
          /\ rhbloom' = r.rh
          /\ lastCall' = [op |-> IF r.trap THEN "trap" ELSE "new", key |-> NoKey,
                          ret |-> r.ret, dup |-> FALSE, mallocFailed |-> ~mallocOk]
    /\ UNCHANGED << freed, added, atUpgrade >>

\* The caller uses the filter that rhbloom_new returned, if it returned
\* one; it goes on with the filter after an rhbloom_add that failed.
NextNew ==
    \/ \E n \in NewSizes, mallocOk \in BOOLEAN : New(n, mallocOk)
    \/ /\ lastCall.op \notin { "none", "trap" }
       /\ ~(lastCall.op = "new" /\ ~lastCall.ret)
       /\ Next

SpecNew == InitNew /\ [][NextNew]_vars

\* The keys of the test: hash(i) is murmurhash2 of the four bytes of the int
\* i with seed 0, an unsigned int.
MurmurM == << 149, 233, 209, 91, 0, 0, 0, 0 >>

\* The value of an unsigned int expression: the low 32 bits.
Trunc32(x) == [i \in 1..8 |-> IF i <= 4 THEN x[i] ELSE 0]

\* murmurhash2(&x, 4, 0): one round of the while loop, no tail bytes.
murmurhash2(x) ==
    LET h0 == U64(4)
        k1 == Trunc32(Mul64(x, MurmurM))
        k2 == Xor64(k1, Shr64(k1, 24))
        k3 == Trunc32(Mul64(k2, MurmurM))
        h1 == Xor64(Trunc32(Mul64(h0, MurmurM)), k3)
        h2 == Xor64(h1, Shr64(h1, 13))
        h3 == Trunc32(Mul64(h2, MurmurM))
    IN  Xor64(h3, Shr64(h3, 15))

hash(x) == murmurhash2(U64(x))

\* test_step: a filter created with (n, p) is given the keys hash(0), ...,
\* hash(n), and may be cleared and filled again.  p is pct / 100.
StepConfigs ==
    { [n |-> 16, pct |-> 1], [n |-> 18, pct |-> 18], [n |-> 40, pct |-> 22],
      [n |-> 76, pct |-> 67], [n |-> 100, pct |-> 18], [n |-> 200, pct |-> 1],
      [n |-> 1000, pct |-> 16], [n |-> 1000, pct |-> 66] }

\* The (m, k) that rhbloom_new_with_allocator derives for (n, pct / 100).
DerivedPct(n, pct) ==
    IF pct = 1 THEN Derived(n)
    ELSE CASE n = 18 /\ pct = 18 -> [m |-> 64, k |-> 2]
           [] n = 40 /\ pct = 22 -> [m |-> 128, k |-> 2]
           [] n = 76 /\ pct = 67 -> [m |-> 64, k |-> 1]
           [] n = 100 /\ pct = 18 -> [m |-> 512, k |-> 1]
           [] n = 1000 /\ pct = 16 -> [m |-> 4096, k |-> 3]
           [] n = 1000 /\ pct = 66 -> [m |-> 1024, k |-> 1]
           [] n = 16 /\ pct = 50 -> [m |-> 32, k |-> 1]
           [] n = 16 /\ pct = 75 -> [m |-> 16, k |-> 0]
           [] n = 16 /\ pct = 90 -> [m |-> 4,  k |-> 0]

\* rhbloom_new_with_allocator for (n, pct / 100).
rhbloom_new_pct(n, pct) ==
    [ count |-> 0, nbuckets |-> 0, buckets |-> NULL,
      k |-> DerivedPct(n, pct).k, m |-> DerivedPct(n, pct).m, bits |-> NULL ]

\* The (n, p) that the filter was created with.
StepConfig ==
    CHOOSE c \in StepConfigs :
        DerivedPct(c.n, c.pct) = [m |-> rhbloom.m, k |-> rhbloom.k]

InitStep ==
    /\ rhbloom \in { rhbloom_new_pct(c.n, c.pct) : c \in StepConfigs }
    /\ freed = FALSE
    /\ added = {}
    /\ atUpgrade = {}
    /\ lastCall = [op |-> "new", key |-> NoKey, ret |-> TRUE, dup |-> FALSE,
                   mallocFailed |-> FALSE]

AddStep(mallocOk) ==
    /\ Cardinality(added) < StepConfig.n + 1
    /\ Add(hash(Cardinality(added)), mallocOk)

NextStep ==
    \/ \E mallocOk \in MallocOutcomes : AddStep(mallocOk)
    \/ Clear

SpecStep == InitStep /\ [][NextStep]_vars

\* How many of the keys hash(lo), ..., hash(hi) test true.
HitsIn(lo, hi) ==
    Cardinality({ i \in lo..hi : rhbloom_test(rhbloom, hash(i)) })

\* hits of test_step after its last loop, for (i = nn; i < nn*2; i++) with
\* nn = n + 1: none of these keys was added.
Hits == HitsIn(StepConfig.n + 1, 2 * (StepConfig.n + 1) - 1)

\* The chain of keys of one ideal bucket, and one more key whose ideal bucket
\* is the 256th slot of the chain: its mixed value is 255.
SideKey == Unmix13(U64(255))

AddChainNext(mallocOk) ==
    /\ Cardinality(added \cap ChainKeySet) < ChainLen
    /\ Add(ChainKey(Cardinality(added \cap ChainKeySet) + 1), mallocOk)

AddSide(mallocOk) ==
    /\ SideKey \notin added
    /\ Add(SideKey, mallocOk)

NextSide ==
    \/ \E mallocOk \in MallocOutcomes : AddChainNext(mallocOk)
    \/ \E mallocOk \in MallocOutcomes : AddSide(mallocOk)

SpecSide == InitChain /\ [][NextSide]_vars

\* The same, the key of the other ideal bucket being added at any time,
\* also again after it was added.
AddSideRepeated(mallocOk) == Add(SideKey, mallocOk)

NextDup ==
    \/ \E mallocOk \in MallocOutcomes : AddChainNext(mallocOk)
    \/ \E mallocOk \in MallocOutcomes : AddSideRepeated(mallocOk)

\* The filter is the one created with (13000, 0.01), whose table grows to
\* 1024 buckets.
InitDup == InitWith({ 13000 })

SpecDup == InitDup /\ [][NextDup]_vars

\* The bits that the while (1) loop of rhbloom_testadd visits for a 56-bit
\* key in an array of m bits with k probes, from probe i at the value key.
RECURSIVE testadd_positions(_, _, _, _)
testadd_positions(key, i, k, m) ==
    { Mask(key, m) } \cup
        (IF i = k - 1 THEN {}
         ELSE testadd_positions(NextProbe(key), i + 1, k, m))

\* The bits that are set by inserting the mixed 56-bit value of each of the
\* keys into an all-zero array of rh.m bits with rh.k probes.
BloomImage(rh, keys) ==
    UNION { testadd_positions(RHBLOOM_KEY(rhbloom_mix(key)), 0, rh.k, rh.m) :
              key \in keys }

\* The bits that are set in the bit array of rh.
BitsSet(rh) == { j \in 0..(rh.m - 1) : GetBit(rh.bits, j) = 1 }

\* The probes of the bit array.  The filters are created with n = 16 and
\* p = 0.01, 0.5, 0.75 and 0.9: their bits (32, 4, 2 and 0 bytes) are
\* smaller than the first hash table, so that the first add upgrades them.
BitsConfigs ==
    { [n |-> 16, pct |-> 1], [n |-> 16, pct |-> 50],
      [n |-> 16, pct |-> 75], [n |-> 16, pct |-> 90] }

\* The iterations of the while (1) loop of rhbloom_testadd that are followed.
MaxProbes == 8

\* The bit positions j that the while (1) loop of rhbloom_testadd touches,
\* in order, from iteration i at the value key.  The loop leaves at a zero
\* bit when it tests, and when i == k - 1, a comparison of size_t: no i
\* within MaxProbes is equal to k - 1 when k is 0.  A position outside the
\* bits is the last one followed.
RECURSIVE testadd_trace(_, _, _, _)
testadd_trace(rh, key, i, add) ==
    LET j == Mask(key, rh.m)
        outside == j \div 8 >= Len(rh.bits)
    IN  << j >> \o
        (IF outside \/ (~add /\ GetBit(rh.bits, j) = 0)
              \/ i = rh.k - 1 \/ i = MaxProbes - 1
         THEN << >>
         ELSE testadd_trace(rh, NextProbe(key), i + 1, add))

\* The filter as the upgrade branch of rhbloom_grow makes it from an empty
\* table: m >> 3 zeroed bytes for the bits, and no buckets.
grow_upgrade_empty(rh) ==
    [rh EXCEPT !.bits = Zeroed(rh.m \div 8, 0),
               !.count = 0, !.nbuckets = 0, !.buckets = NULL]

\* The filter on which rhbloom_add calls rhbloom_testadd for its key: the
\* upgraded filter, or the one that its upgrade from an empty table makes.
TestaddEntry(rh) == IF rh.bits # NULL THEN rh ELSE grow_upgrade_empty(rh)

\* rhbloom_add gets to rhbloom_testadd: the filter is upgraded, or the call
\* upgrades it from an empty table.
ReachesTestadd(rh, mallocOk) ==
    \/ rh.bits # NULL
    \/ /\ rh.count = rh.nbuckets \div 2
       /\ rh.nbuckets = 0
       /\ 16 * 8 >= rh.m \div 8
       /\ mallocOk

\* The bits after the positions of the trace that lie inside them are set.
RECURSIVE SetBits(_, _, _)
SetBits(bits, trace, x) ==
    IF x > Len(trace) THEN bits
    ELSE SetBits(IF trace[x] \div 8 < Len(bits) THEN SetBit(bits, trace[x]) ELSE bits,
                 trace, x + 1)

InitBits ==
    /\ rhbloom \in { rhbloom_new_pct(c.n, c.pct) : c \in BitsConfigs }
    /\ freed = FALSE
    /\ added = {}
    /\ atUpgrade = {}
    /\ lastCall = [op |-> "new", key |-> NoKey, ret |-> TRUE, dup |-> FALSE,
                   mallocFailed |-> FALSE]

\* rhbloom_add(rhbloom, key).  When the loop of rhbloom_testadd touches a
\* byte outside the bits the behaviour is undefined: the access faults
\* ("trap") or the loop goes on; when the loop does not leave within
\* MaxProbes iterations the call is left inside it ("looping").  An
\* allocator that answers NULL to malloc(0) is the outcome mallocOk = FALSE.
AddBits(key, mallocOk) ==
    /\ ~freed
    /\ lastCall.op \notin { "trap", "looping" }
    /\ LET entry == TestaddEntry(rhbloom)
           trace == testadd_trace(entry, RHBLOOM_KEY(rhbloom_mix(key)), 0, TRUE)
           outside == \E x \in 1..Len(trace) : trace[x] \div 8 >= Len(entry.bits)
           unfinished == (rhbloom.k - 1) \notin 0..(MaxProbes - 1)
       IN  IF ReachesTestadd(rhbloom, mallocOk) /\ (outside \/ unfinished)
           THEN /\ rhbloom' = [entry EXCEPT !.bits = SetBits(entry.bits, trace, 1)]
                /\ \E op \in (IF outside THEN { "trap" } ELSE {})
                               \cup (IF unfinished THEN { "looping" } ELSE {}) :
                      lastCall' = [op |-> op, key |-> key, ret |-> FALSE,
                                   dup |-> FALSE, mallocFailed |-> FALSE]
                /\ UNCHANGED << freed, added, atUpgrade >>
           ELSE Add(key, mallocOk)

NextBits ==
    \/ \E key \in Keys, mallocOk \in MallocOutcomes : AddBits(key, mallocOk)
    \/ /\ lastCall.op \notin { "trap", "looping" }
       /\ \/ \E key \in Keys : Test(key)
          \/ Clear
          \/ Free

SpecBits == InitBits /\ [][NextBits]_vars

\* ------------------------------------------------------------------------
\* The header-only variant (src/rhbloom.h)
\* ------------------------------------------------------------------------
\* The struct is the caller's: rhbloom_init writes its fields and allocates
\* nothing, rhbloom_destroy releases the arrays and leaves the struct ready
\* for use.  The hash table is that of rhbloom.c; the Bloom probes are not.

\* The (n, p) given to rhbloom_init; p is pct / 100.  n is not raised to 16.
InitConfigs ==
    { [n |-> 0, pct |-> 1], [n |-> 5, pct |-> 1], [n |-> 16, pct |-> 1],
      [n |-> 200, pct |-> 1], [n |-> 16, pct |-> 90] }

\* The (m, k) that rhbloom_init0 derives for (n, pct / 100), as the double
\* arithmetic of lines 66-74 computes them.  For n = 0, m is 0 and m0 is 2;
\* k is the conversion of a NaN, and k0 = round(0.0 * k) is 0 whatever that
\* conversion gives.
DerivedInit(n, pct) ==
    CASE n = 0 /\ pct = 1    -> [m |-> 2,    k |-> 0]
      [] n = 5 /\ pct = 1    -> [m |-> 64,   k |-> 5]
      [] n = 16 /\ pct = 1   -> [m |-> 256,  k |-> 4]
      [] n = 200 /\ pct = 1  -> [m |-> 2048, k |-> 7]
      [] n = 16 /\ pct = 90  -> [m |-> 4,    k |-> 0]

\* rhbloom_init0
rhbloom_init0(n, pct) ==
    [ count |-> 0, nbuckets |-> 0, buckets |-> NULL,
      k |-> DerivedInit(n, pct).k, m |-> DerivedInit(n, pct).m, bits |-> NULL ]

\* rhbloom_destroy0
rhbloom_destroy0(rh) ==
    [rh EXCEPT !.count = 0, !.nbuckets = 0, !.buckets = NULL, !.bits = NULL]

\* rhbloom_mix13 of rhbloom.h: the text of rhbloom_mix of rhbloom.c.
rhbloom_mix13(key) == rhbloom_mix(key)

\* The bit gap of rhbloom_testadd of rhbloom.h:
\* (key >> 24) & (UINT32_MAX-1), bits 24..55 of the key with the lowest of
\* them cleared.
Gap(key) ==
    LET s == Shr64(key, 24)
    IN  [i \in 1..8 |-> IF i = 1 THEN s[1] - (s[1] % 2)
                        ELSE IF i <= 4 THEN s[i] ELSE 0]

\* (key+gap*i) % m.  m is a power of two, which divides 2^64: the remainder
\* of the size_t sum is that of the sum of the remainders.
GapProbe(key, gap, i, m) == (Mask(key, m) + ((Mask(gap, m) * i) % m)) % m

\* The for loop of rhbloom_testadd of rhbloom.h, from probe i; the result is
\* the returned bool and the filter as the loop leaves it.  With k = 0 the
\* loop has no iteration.
RECURSIVE testadd0_loop(_, _, _, _, _)
testadd0_loop(rh, key, gap, i, add) ==
    IF i >= rh.k THEN [ret |-> TRUE, rh |-> rh]
    ELSE LET j == GapProbe(key, gap, i, rh.m)
         IN  IF add
             THEN testadd0_loop([rh EXCEPT !.bits = SetBit(rh.bits, j)],
                                key, gap, i + 1, add)
             ELSE IF GetBit(rh.bits, j) = 0
             THEN [ret |-> FALSE, rh |-> rh]
             ELSE testadd0_loop(rh, key, gap, i + 1, add)

\* rhbloom_testadd of rhbloom.h
rhbloom_testadd0(rh, key0, add) ==
    LET key == RHBLOOM_KEY(key0)
    IN  testadd0_loop(rh, key, Gap(key), 0, add)

\* The migration loop of the upgrade branch of rhbloom_grow of rhbloom.h,
\* over the old buckets from i on, in increasing order.
RECURSIVE grow_upgrade0_loop(_, _, _, _)
grow_upgrade0_loop(rh, buckets_old, i, nbuckets_old) ==
    IF i >= nbuckets_old THEN rh
    ELSE grow_upgrade0_loop(
             IF RHBLOOM_DIB(buckets_old[i + 1]) # 0
             THEN rhbloom_testadd0(rh, buckets_old[i + 1], TRUE).rh
             ELSE rh,
             buckets_old, i + 1, nbuckets_old)

\* rhbloom_grow of rhbloom.h; callocOk is whether calloc returns memory (it
\* may return NULL for the 0 bytes of an m below 8 as well).  The expand
\* branch is the text of that of rhbloom.c, with calloc for malloc and
\* memset.
rhbloom_grow0(rh, callocOk) ==
    LET nbuckets_new == IF rh.nbuckets = 0 THEN 16 ELSE rh.nbuckets * 2
    IN  IF nbuckets_new * 8 >= rh.m \div 8
        THEN IF ~callocOk
             THEN [ret |-> FALSE, rh |-> [rh EXCEPT !.bits = NULL]]
             ELSE [ret |-> TRUE,
                   rh |-> grow_upgrade0_loop(
                            [rh EXCEPT !.bits = Zeroed(rh.m \div 8, 0),
                                       !.count = 0, !.nbuckets = 0,
                                       !.buckets = NULL],
                            rh.buckets, 0, rh.nbuckets)]
        ELSE grow_expand(rh, callocOk)

\* The while (1) loop of rhbloom_add0 and the final rhbloom_addkey, on the
\* mixed key.
RECURSIVE add0_loop(_, _, _)
add0_loop(rh, key, callocOk) ==
    IF rh.bits # NULL
    THEN [ret |-> TRUE, rh |-> rhbloom_testadd0(rh, key, TRUE).rh]
    ELSE IF rh.count = rh.nbuckets \div 2
    THEN LET g == rhbloom_grow0(rh, callocOk)
         IN  IF ~g.ret THEN [ret |-> FALSE, rh |-> g.rh]
             ELSE add0_loop(g.rh, key, callocOk)
    ELSE [ret |-> TRUE, rh |-> rhbloom_addkey(rh, key)]

\* rhbloom_add0
rhbloom_add0(rh, key, callocOk) == add0_loop(rh, rhbloom_mix13(key), callocOk)

\* rhbloom_test0
rhbloom_test0(rh, key0) ==
    LET key == rhbloom_mix13(key0)
    IN  IF rh.bits # NULL THEN rhbloom_testadd0(rh, key, FALSE).ret
        ELSE IF rh.buckets = NULL THEN FALSE
        ELSE test_loop(rh, RHBLOOM_KEY(key), Mask(RHBLOOM_KEY(key), rh.nbuckets))

\* rhbloom_upgraded0
rhbloom_upgraded0(rh) == rh.bits # NULL

\* The keys given to the filter of rhbloom.h: seven keys of the model, whose
\* bit gap is 0, and hash(0), whose bit gap is not.  Eight keys fill half of
\* the first table.
HeaderKeys == { Unmix13(MixedValues[i]) : i \in 1..7 } \cup { hash(0) }

\* Before rhbloom_init the struct of the caller holds nothing that may be
\* read.
InitHeader ==
    /\ rhbloom = NoFilter
    /\ freed = FALSE
    /\ added = {}
    /\ atUpgrade = {}
    /\ lastCall = [op |-> "none", key |-> NoKey, ret |-> TRUE, dup |-> FALSE,
                   mallocFailed |-> FALSE]

\* rhbloom_init(&rhbloom, n, pct / 100).  It writes every field, whatever
\* the struct held: an array that the struct still pointed to is lost to it.
Init0(n, pct) ==
    /\ rhbloom' = rhbloom_init0(n, pct)
    /\ added' = {}
    /\ atUpgrade' = {}
    /\ lastCall' = [op |-> "init", key |-> NoKey, ret |-> TRUE, dup |-> FALSE,
                    mallocFailed |-> FALSE]
    /\ UNCHANGED freed

\* rhbloom_add(&rhbloom, key) of rhbloom.h, calloc returning memory or not.
Add0(key, callocOk) ==
    /\ lastCall.op # "none"
    /\ LET r == rhbloom_add0(rhbloom, key, callocOk)
       IN  /\ rhbloom' = r.rh
           /\ added' = IF r.ret THEN added \cup {key} ELSE added
           /\ atUpgrade' = IF ~rhbloom_upgraded0(rhbloom) /\ rhbloom_upgraded0(r.rh)
                           THEN added \cup {key} ELSE atUpgrade
           /\ lastCall' = [op |-> "add", key |-> key, ret |-> r.ret,
                           dup |-> Stored(rhbloom, key),
                           mallocFailed |-> AddAllocates /\ ~callocOk]
    /\ UNCHANGED freed

\* rhbloom_test(&rhbloom, key) of rhbloom.h
Test0(key) ==
    /\ lastCall.op # "none"
    /\ lastCall' = [op |-> "test", key |-> key, ret |-> rhbloom_test0(rhbloom, key),
                    dup |-> FALSE, mallocFailed |-> FALSE]
    /\ UNCHANGED << rhbloom, freed, added, atUpgrade >>

\* rhbloom_destroy(&rhbloom): the struct stays the caller's, with its m and
\* k, and can be used again.
Destroy0 ==
    /\ lastCall.op # "none"
    /\ rhbloom' = rhbloom_destroy0(rhbloom)
    /\ added' = {}
    /\ atUpgrade' = {}
    /\ lastCall' = [op |-> "destroy", key |-> NoKey, ret |-> TRUE, dup |-> FALSE,
                    mallocFailed |-> FALSE]
    /\ UNCHANGED freed

NextHeader ==
    \/ \E c \in InitConfigs : Init0(c.n, c.pct)
    \/ \E key \in HeaderKeys, callocOk \in MallocOutcomes : Add0(key, callocOk)
    \/ \E key \in HeaderKeys : Test0(key)
    \/ Destroy0

SpecHeader == InitHeader /\ [][NextHeader]_vars

\* ------------------------------------------------------------------------
\* Properties
\* ------------------------------------------------------------------------

\* The filter is a hash table: buckets are allocated and bits is not.
HashMode == rhbloom.bits = NULL /\ rhbloom.buckets # NULL

\* Some added key has the same mixed 56-bit value as key.
AddedAlias(key) ==
    \E other \in added :
        RHBLOOM_KEY(rhbloom_mix(other)) = RHBLOOM_KEY(rhbloom_mix(key))

\* The bytes of the array that is allocated, if any.
StorageBytes ==
    IF rhbloom.bits # NULL THEN Len(rhbloom.bits)
    ELSE IF rhbloom.buckets # NULL THEN Len(rhbloom.buckets) * 8
    ELSE 0

\* C1: no false negatives in hash mode.  While the filter is not upgraded,
\* rhbloom_test returns true for every key added since creation or the last
\* clear, table expansions included.
C1_NoFalseNegativeInHashMode ==
    (~freed /\ ~rhbloom_upgraded(rhbloom))
        => \A key \in added : rhbloom_test(rhbloom, key)

\* C2: upgrade preservation.  In every state after the upgrade,
\* rhbloom_test returns true for every key that was added before the upgrade
\* and for the key whose add triggered it.
C2_UpgradePreservesKeys ==
    (~freed /\ rhbloom_upgraded(rhbloom))
        => \A key \in atUpgrade : rhbloom_test(rhbloom, key)

\* C3: in Bloom mode a false result is definitive.  rhbloom_test returns
\* false only for a key that has not been added since the last clear: it
\* returns true for every key that has been.
C3_BloomFalseIsDefinitive ==
    (~freed /\ rhbloom_upgraded(rhbloom))
        => \A key \in ModelKeys :
               key \in added => rhbloom_test(rhbloom, key)

\* C4: exact membership while not upgraded.  A rhbloom_test of a key that
\* returns true in the pristine state or in hash mode is of a key that, or
\* an alias of which, was added since creation or the last clear.
C4_ExactWhileNotUpgraded ==
    (lastCall.op = "test" /\ ~rhbloom_upgraded(rhbloom) /\ lastCall.ret)
        => AddedAlias(lastCall.key)

\* C5: an allocation failure is free of side effects.  An rhbloom_add whose
\* grow or upgrade fails to allocate returns false and leaves the filter
\* (count, nbuckets, buckets, bits, k, m) and the added keys as they were.
C5_AllocFailureNoSideEffect ==
    [][(lastCall'.op = "add" /\ lastCall'.mallocFailed)
           => (~lastCall'.ret /\ rhbloom' = rhbloom /\ added' = added)]_vars

\* An add failed to allocate the growth of a table that holds keys.
C5_Witness ==
    /\ lastCall.op = "add" /\ lastCall.mallocFailed /\ ~lastCall.ret
    /\ HashMode /\ rhbloom.count > 0 /\ added # {}

\* C6: the upgrade is irreversible.  From an upgraded filter every add, test
\* and clear leads to an upgraded filter without a hash table.
C6_UpgradeIrreversible ==
    [][(rhbloom_upgraded(rhbloom) /\ ~freed')
           => (rhbloom_upgraded(rhbloom') /\ rhbloom'.buckets = NULL)]_vars

\* An upgraded filter was cleared.
C6_Witness ==
    ~freed /\ rhbloom_upgraded(rhbloom) /\ lastCall.op = "clear"

\* C7: after rhbloom_clear, in either mode, rhbloom_test returns false for
\* every key that was added before the clear.
C7_ClearForgetsKeys ==
    [][lastCall'.op = "clear"
           => \A key \in added : ~rhbloom_test(rhbloom', key)]_vars

\* C8: an rhbloom_add of a key that is stored in the hash table leaves the
\* filter (count, nbuckets, the buckets, the mode) unchanged.  The claim is
\* taken for the adds that rhbloom_add makes without growing, those with
\* count # nbuckets/2; when count = nbuckets/2 rhbloom_add grows before it
\* looks for the key, and then the table doubles and holds the same keys,
\* or the filter upgrades.
C8_DuplicateAddNoOp ==
    [][(lastCall'.op = "add" /\ lastCall'.dup /\ lastCall'.ret)
           => IF rhbloom.count # rhbloom.nbuckets \div 2
              THEN rhbloom' = rhbloom
              ELSE \/ /\ rhbloom_upgraded(rhbloom')
                      /\ rhbloom'.count = 0
                   \/ /\ ~rhbloom_upgraded(rhbloom')
                      /\ rhbloom'.nbuckets = 2 * rhbloom.nbuckets
                      /\ rhbloom'.count = rhbloom.count
                      /\ \A key \in Keys : Stored(rhbloom', key) <=> Stored(rhbloom, key)]_vars

\* At most one of buckets and bits of rh is allocated; and when bits is,
\* buckets is absent, count is 0 and nbuckets is 0.
OneMode(rh) ==
    /\ rh.buckets = NULL \/ rh.bits = NULL
    /\ rh.bits # NULL => (rh.buckets = NULL /\ rh.count = 0 /\ rh.nbuckets = 0)
    /\ rh.buckets # NULL => Len(rh.buckets) = rh.nbuckets

\* One of buckets and bits of rh is allocated.
Allocated(rh) == rh.buckets # NULL \/ rh.bits # NULL

\* C9: mode consistency.  In every state at most one of buckets and bits is
\* allocated, and when bits is allocated, buckets is absent, count is 0 and
\* nbuckets is 0.  A successful add leaves exactly one of them allocated,
\* and so does every later call until the filter is freed: clears, tests,
\* and adds that fail included.
C9_ModeConsistency ==
    [][/\ OneMode(rhbloom) /\ OneMode(rhbloom')
       /\ ~freed' =>
              /\ (lastCall'.op = "add" /\ lastCall'.ret) => Allocated(rhbloom')
              /\ Allocated(rhbloom) => Allocated(rhbloom')]_vars

\* An add upgraded a table that held keys.
C9_Witness ==
    /\ ~freed /\ rhbloom_upgraded(rhbloom)
    /\ lastCall.op = "add" /\ lastCall.ret /\ lastCall.dup

\* C10 as stated: rhbloom_memsize returns m/8 when the filter is upgraded
\* and nbuckets * 8 otherwise.
C10_MemsizeIsStorage ==
    ~freed => rhbloom_memsize(rhbloom) =
                  (IF rhbloom_upgraded(rhbloom)
                   THEN rhbloom.m \div 8 ELSE rhbloom.nbuckets * 8)

\* C10, amended: rhbloom_memsize of rhbloom.c returns sizeof(struct rhbloom)
\* plus the bytes of the allocated array (m/8 when upgraded, nbuckets * 8
\* otherwise); rhbloom_memsize0 of rhbloom.h returns the bytes of the array
\* alone.
C10_MemsizeIsStructPlusStorage ==
    ~freed =>
        /\ rhbloom_memsize(rhbloom) = SizeofStruct + StorageBytes
        /\ rhbloom_memsize0(rhbloom) = StorageBytes
        /\ StorageBytes = (IF rhbloom_upgraded(rhbloom)
                           THEN rhbloom.m \div 8 ELSE rhbloom.nbuckets * 8)

\* A 16-bucket table: 128 bytes of buckets, 192 with the struct.
C10_Witness ==
    /\ ~freed /\ HashMode /\ rhbloom.nbuckets = 16 /\ rhbloom.count > 0
    /\ rhbloom_memsize0(rhbloom) = 128
    /\ rhbloom_memsize(rhbloom) = 192

\* C11: capacity monotonicity.  Over add, test and clear, rhbloom_memsize
\* never decreases from one state to the next (the upgrade step included),
\* stays constant once the filter is upgraded, and is never changed by
\* rhbloom_clear.
C11_MemsizeMonotone ==
    [][~freed' =>
           /\ rhbloom_memsize(rhbloom') >= rhbloom_memsize(rhbloom)
           /\ rhbloom_upgraded(rhbloom)
                  => rhbloom_memsize(rhbloom') = rhbloom_memsize(rhbloom)
           /\ lastCall'.op = "clear"
                  => rhbloom_memsize(rhbloom') = rhbloom_memsize(rhbloom)]_vars

\* A table that has expanded to 32 buckets was cleared.
C11_Witness ==
    ~freed /\ HashMode /\ rhbloom.nbuckets = 32 /\ lastCall.op = "clear"

\* Neither buckets nor bits is allocated.
Pristine == rhbloom.bits = NULL /\ rhbloom.buckets = NULL

\* The number of occupied buckets.
Occupied(rh) ==
    Cardinality({ i \in 1..rh.nbuckets : RHBLOOM_DIB(rh.buckets[i]) # 0 })

\* The first successful add on a pristine filter.
FirstAdd == Pristine /\ lastCall'.op = "add" /\ lastCall'.ret

\* The filter is a table of 16 buckets of which one is occupied.
HashOfOneKey ==
    HashMode /\ rhbloom.nbuckets = 16 /\ rhbloom.count = 1 /\ Occupied(rhbloom) = 1

\* The mode transitions Hash(N) -> Hash(N), Hash(2N), Bloom, and
\* Bloom -> Bloom.
HashAndBloomTransitions ==
    /\ HashMode =>
           \/ rhbloom_upgraded(rhbloom')
           \/ HashMode' /\ rhbloom'.nbuckets \in { rhbloom.nbuckets, 2 * rhbloom.nbuckets }
    /\ rhbloom_upgraded(rhbloom) => rhbloom_upgraded(rhbloom')

\* C12 as stated: the first successful add on a pristine filter puts it in
\* hash mode with 16 buckets and one occupied slot; from then on the only
\* mode transitions are Hash(N) -> Hash(2N) and Hash(N) -> Bloom, and Bloom
\* is terminal.
C12_Lifecycle ==
    [][~freed' =>
           /\ FirstAdd => HashOfOneKey'
           /\ Pristine => (Pristine' \/ HashOfOneKey')
           /\ HashAndBloomTransitions]_vars

\* C12, amended: the first successful add on a pristine filter puts it in
\* hash mode with 16 buckets and one occupied slot when 16 * 8 < m/8, and
\* directly in Bloom mode otherwise; from then on the only mode transitions
\* are Hash(N) -> Hash(2N) and Hash(N) -> Bloom, and Bloom is terminal.
C12_LifecycleWithDirectUpgrade ==
    [][~freed' =>
           /\ FirstAdd => IF 16 * 8 < rhbloom.m \div 8
                          THEN HashOfOneKey'
                          ELSE rhbloom_upgraded(rhbloom') /\ rhbloom'.nbuckets = 0
           /\ Pristine => (Pristine' \/ FirstAdd)
           /\ HashAndBloomTransitions]_vars

\* The first add to the smallest filter upgraded it.
C12_Witness ==
    /\ ~freed /\ rhbloom.m = 256 /\ rhbloom_upgraded(rhbloom)
    /\ lastCall.op = "add" /\ lastCall.ret /\ Cardinality(added) = 1

C14_NewReturnsNullOnFailure ==
    (lastCall.op \in { "new", "trap" } /\ lastCall.mallocFailed)
        => (lastCall.op = "new" /\ ~lastCall.ret /\ rhbloom = NoFilter)

C16_RobinHoodDistance ==
    (~freed /\ HashMode)
        => \A i \in 0..(rhbloom.nbuckets - 1) :
               LET b == rhbloom.buckets[i + 1]
                   ideal == Mask(RHBLOOM_KEY(b), rhbloom.nbuckets)
               IN  b # U64(0)
                       => /\ RHBLOOM_DIB(b) # 0
                          /\ RHBLOOM_DIB(b) = 1 + ((i - ideal) % rhbloom.nbuckets)

\* C17: the Robin Hood ordering behind the early exit of the lookup.  In
\* hash mode, for every stored key at probe distance d from its ideal
\* bucket, the slot at each probe step t, 1 <= t < d, is occupied and stores
\* a dib of at least t; so that the lookup, which returns false at a slot
\* whose dib is smaller than the probe's, finds every stored key.
C17_RobinHoodOrdering ==
    (~freed /\ HashMode)
        => \A i \in 0..(rhbloom.nbuckets - 1) :
               LET b == rhbloom.buckets[i + 1]
                   ideal == Mask(RHBLOOM_KEY(b), rhbloom.nbuckets)
                   d == 1 + ((i - ideal) % rhbloom.nbuckets)
                   Step(t) == rhbloom.buckets[((ideal + t - 1) % rhbloom.nbuckets) + 1]
               IN  RHBLOOM_DIB(b) # 0
                       => /\ \A t \in 1..(d - 1) : RHBLOOM_DIB(Step(t)) >= t
                          /\ test_loop(rhbloom, RHBLOOM_KEY(b), ideal)

\* A step that is a grow event: a successful rhbloom_add on a filter that is
\* not upgraded and whose count is half of nbuckets (0 of 0 at first).
GrowEvent ==
    /\ ~freed /\ ~rhbloom_upgraded(rhbloom)
    /\ rhbloom.count = rhbloom.nbuckets \div 2
    /\ lastCall'.op = "add" /\ lastCall'.ret

\* The nbuckets_new of that grow event.
GrowTo == IF rhbloom.nbuckets = 0 THEN 16 ELSE 2 * rhbloom.nbuckets

\* C18: the upgrade crossover.  A grow event upgrades to Bloom mode if and
\* only if nbuckets_new * 8 >= m / 8, and otherwise expands the table to
\* exactly nbuckets_new slots; so that in hash mode nbuckets is a power of
\* two, at least 16, with nbuckets * 8 < m / 8, and the storage never takes
\* more than the m / 8 bytes of the Bloom filter.
C18_UpgradeCrossover ==
    [][~freed' =>
           /\ GrowEvent =>
                  IF GrowTo * 8 >= rhbloom.m \div 8
                  THEN rhbloom_upgraded(rhbloom')
                  ELSE /\ HashMode'
                       /\ rhbloom'.nbuckets = GrowTo
                       /\ Len(rhbloom'.buckets) = GrowTo
           /\ HashMode' =>
                  /\ rhbloom'.nbuckets \in { 16 * Pow2(x) : x \in 0..16 }
                  /\ rhbloom'.nbuckets * 8 < rhbloom'.m \div 8
           /\ ~Pristine' => StorageBytes' <= rhbloom'.m \div 8]_vars

\* A table of 16 buckets that held 8 keys has been expanded by an add to 32
\* buckets, which take less than the 512 bytes of the bits.
C18_Witness ==
    /\ ~freed /\ HashMode /\ rhbloom.m = 4096
    /\ rhbloom.nbuckets = 32 /\ Len(rhbloom.buckets) = 32 /\ rhbloom.count = 8
    /\ lastCall.op = "add" /\ lastCall.ret

\* The step grows the filter: it expands the table or upgrades.
Grew ==
    \/ rhbloom_upgraded(rhbloom')
    \/ rhbloom'.nbuckets # rhbloom.nbuckets

\* C19 as stated: in hash mode an add grows the filter exactly when it would
\* make count equal to nbuckets / 2, and count stays below nbuckets / 2.
C19_GrowthTrigger ==
    [][~freed' =>
           /\ (HashMode /\ lastCall'.op = "add" /\ lastCall'.ret)
                  => (Grew <=> /\ ~lastCall'.dup
                               /\ rhbloom.count + 1 = rhbloom.nbuckets \div 2)
           /\ HashMode' => rhbloom'.count < rhbloom'.nbuckets \div 2]_vars

\* C19, amended: while the filter is not upgraded, a successful add grows it
\* exactly when count is equal to nbuckets / 2 before the add, whether or
\* not the key is stored already; an add fails only in that state; and in
\* hash mode count is at most nbuckets / 2.
C19_GrowthTriggerAtHalf ==
    [][~freed' =>
           /\ (~rhbloom_upgraded(rhbloom) /\ lastCall'.op = "add")
                  => IF lastCall'.ret
                     THEN Grew <=> rhbloom.count = rhbloom.nbuckets \div 2
                     ELSE ~Grew /\ rhbloom.count = rhbloom.nbuckets \div 2
           /\ HashMode' => rhbloom'.count <= rhbloom'.nbuckets \div 2]_vars

\* The add of a new key has made count equal to half of nbuckets, 8 of 16,
\* and the table has not grown.
C19_Witness ==
    /\ ~freed /\ HashMode /\ rhbloom.nbuckets = 16 /\ rhbloom.count = 8
    /\ lastCall.op = "add" /\ lastCall.ret /\ ~lastCall.dup

\* C20: the Bloom image.  In every upgraded state, right after the upgrade
\* and after further adds, the bit array is the one obtained by inserting
\* the mixed 56-bit value of every key added since creation or the last
\* clear into an all-zero array of m bits with the same k: no bit is missing
\* and no other bit is set, whatever the order of the adds, the duplicates
\* and the moment of the upgrade.
C20_BloomImageOfAddedKeys ==
    (~freed /\ rhbloom_upgraded(rhbloom))
        => BitsSet(rhbloom) = BloomImage(rhbloom, added)

\* The last call got to the loop of rhbloom_testadd for its key.
ProbedBits ==
    \/ lastCall.op \in { "trap", "looping" }
    \/ lastCall.op \in { "add", "test" } /\ rhbloom_upgraded(rhbloom)

\* The positions that the last call touched: with the bits as the call found
\* them when it tested, as the upgrade allocated them when it added.
LastTrace ==
    testadd_trace(IF lastCall.op = "test" THEN rhbloom
                  ELSE [rhbloom EXCEPT !.bits = Zeroed(rhbloom.m \div 8, 0)],
                  RHBLOOM_KEY(rhbloom_mix(lastCall.key)), 0,
                  lastCall.op # "test")

\* C21: the Bloom probes stay inside the bit array.  Every add in Bloom
\* mode, the add that upgrades included, touches exactly k bit positions,
\* and every test at most k; each position j is below m and lies within the
\* m / 8 bytes that are allocated for the bits.
C21_ProbesInsideBits ==
    (~freed /\ ProbedBits)
        => /\ lastCall.op \notin { "trap", "looping" }
           /\ Len(rhbloom.bits) = rhbloom.m \div 8
           /\ IF lastCall.op = "test"
              THEN Len(LastTrace) <= rhbloom.k
              ELSE Len(LastTrace) = rhbloom.k
           /\ \A x \in 1..Len(LastTrace) :
                  /\ LastTrace[x] < rhbloom.m
                  /\ LastTrace[x] \div 8 < rhbloom.m \div 8

\* The table on which a successful add that leaves the filter in hash mode
\* enters the loop of rhbloom_addkey: the table after the grow, if it grew.
AddkeyEntry == IF Grew THEN rhbloom_grow(rhbloom, TRUE).rh ELSE rhbloom

\* The mixed 56-bit value of a key.
Key56(key) == RHBLOOM_KEY(rhbloom_mix(key))

\* C22: the probing of the hash table terminates.  Every rhbloom_add that
\* inserts enters the loop of rhbloom_addkey with count < nbuckets / 2, after
\* an expansion too, whose re-insertions begin at count 0; so that in hash
\* mode a slot is empty, and the loops of rhbloom_addkey and of rhbloom_test
\* return within nbuckets iterations.
C22_HashProbingTerminates ==
    [][~freed' =>
           /\ (lastCall'.op = "add" /\ lastCall'.ret /\ HashMode') =>
                  /\ (IF lastCall'.dup THEN rhbloom'.count ELSE rhbloom'.count - 1)
                         < rhbloom'.nbuckets \div 2
                  /\ AddkeyEntry.count < AddkeyEntry.nbuckets \div 2
                  /\ rhbloom' = rhbloom_addkey(AddkeyEntry, rhbloom_mix(lastCall'.key))
                  /\ addkey_steps(AddkeyEntry, Key56(lastCall'.key), 1,
                                  Mask(Key56(lastCall'.key), AddkeyEntry.nbuckets))
                         <= AddkeyEntry.nbuckets
           /\ HashMode' =>
                  /\ Occupied(rhbloom') <= rhbloom'.count
                  /\ rhbloom'.count <= rhbloom'.nbuckets \div 2
                  /\ \E i \in 1..rhbloom'.nbuckets : RHBLOOM_DIB(rhbloom'.buckets[i]) = 0
           /\ (lastCall'.op = "test" /\ HashMode') =>
                  test_steps(rhbloom', Key56(lastCall'.key),
                             Mask(Key56(lastCall'.key), rhbloom'.nbuckets))
                      <= rhbloom'.nbuckets]_vars

\* An add has entered the loop of rhbloom_addkey with 7 keys in the table of
\* 16 and has stored the 8th; some key lies past its ideal bucket, behind
\* keys that the probing walked over.
C22_Witness ==
    /\ ~freed /\ HashMode /\ rhbloom.nbuckets = 16 /\ rhbloom.count = 8
    /\ lastCall.op = "add" /\ lastCall.ret /\ ~lastCall.dup
    /\ \E i \in 1..rhbloom.nbuckets : RHBLOOM_DIB(rhbloom.buckets[i]) >= 2
====
